---- MODULE Spec2Model ----
(***************************************************************************)
(* A model of smolagents' E2BExecutor (src/smolagents/e2b_executor.py):    *)
(* the remote stubs installed for the managed agents, one remote run       *)
(* (run_code_raise_errors), the resumption loop of __call__ and the        *)
(* extraction of the result of a run.                                      *)
(*                                                                         *)
(* A CodeAction is modelled as the sequence of its lines (what             *)
(* code_action.splitlines() yields); a line is a record that keeps the     *)
(* text before its first "=" (target) apart from the rest.                 *)
(*                                                                         *)
(* The Sandbox object (self.sbx) is not code of the repository.  Its       *)
(* run_code returns an Execution whose error field holds an exception      *)
(* raised by the remote code (line 134), and the handler of line 169       *)
(* provides for an AgentCallInterruption raised out of it.  What a         *)
(* session's sandbox does with the exception a stub raises is left open    *)
(* (sbx_propagates): it is handed back in execution.error, or it reaches   *)
(* the controller as an AgentCallInterruption.  The values of a bundle     *)
(* are taken to be picklable and the capabilities to return.  The calls    *)
(* of one executor are made one after another, as an agent's step loop     *)
(* makes them: __call__ starts no thread and awaits nothing.               *)
(***************************************************************************)
EXTENDS Integers, Sequences, FiniteSets, TLC

\* ------------------------------------------------------------------ bounds
MaxLines == 3       \* lines of a CodeAction handed to __call__
MaxRuns == 3        \* submissions of the CodeAction within one external call
MaxArtifacts == 2   \* artifacts of a run, in the extraction specification

\* ------------------------------------------------------------- the inputs
AgentNames == {"sub_agent", "search_agent"}
Targets == {"x", "y"}

\* A value carried by the bundle: who produced it and from what.
CallerValue == [by |-> "caller", on |-> "v0"]
NoValue == [by |-> "", on |-> ""]
\* The literal text repr() gives for a value, as it stands in a line of code.
NoLiteral == [literal |-> NoValue]

\* ------------------------------------------------------------------ lines
PrintLine == [kind |-> "print", target |-> "print(1)", agent |-> "", args |-> "", value |-> NoLiteral]
RaiseLine == [kind |-> "raise", target |-> "1/0", agent |-> "", args |-> "", value |-> NoLiteral]
FinalLine == [kind |-> "final", target |-> "final_answer(1)", agent |-> "", args |-> "", value |-> NoLiteral]
CallLine(t, a, q) == [kind |-> "call", target |-> t, agent |-> a, args |-> q, value |-> NoLiteral]
CallLines == {CallLine("x", "sub_agent", "q1"), CallLine("y", "search_agent", "q2")}
SourceLines == {PrintLine, RaiseLine, FinalLine} \cup CallLines
\* A call made only while its target is unbound:
\* t = a(q) if "t" not in globals() else t
GuardedCall(t, a, q) == [kind |-> "gcall", target |-> t, agent |-> a, args |-> q, value |-> NoLiteral]

\* The codes a caller may hand to __call__.
CodeActions == UNION {[1..n -> SourceLines] : n \in 1..MaxLines}

\* The bundles a caller may hand to __call__ (additional_args).
EmptyBundle == [k \in {} |-> NoValue]
Bundles == {EmptyBundle, [k \in {"k"} |-> CallerValue], [k \in {"k", "sub_agent"} |-> CallerValue]}

\* ------------------------------------------------- the remote environment
\* What the remote runtime produces when a stub is called: the exception the
\* stub raises, with the line of the calling frame.
NoReport == [agent_name |-> "", args |-> "", has_line |-> FALSE, line_number |-> 0]
Stub(agent_name, args, line_no) ==
    [agent_name |-> "sub_agent", args |-> args, has_line |-> TRUE, line_number |-> line_no]

\* An assignment whose target is not a name does not compile.
Compiles(code) ==
    \A i \in 1..Len(code) : code[i].kind = "assign" => code[i].target \in Targets

\* The target of line i is bound by an assignment of the code before it (the
\* bundles bind no target).
Bound(code, i) ==
    \E j \in 1..(i - 1) : code[j].kind = "assign" /\ code[j].target = code[i].target

\* The first line at or after i on which the run stops (0: it runs to the end).
RECURSIVE StopAt(_, _)
StopAt(code, i) ==
    IF i > Len(code) THEN 0
    ELSE IF code[i].kind \in {"raise", "call"} THEN i
    ELSE IF code[i].kind = "gcall" /\ ~Bound(code, i) THEN i
    ELSE StopAt(code, i + 1)

\* The stdout lines of the lines 1..n of the code.
RECURSIVE Stdout(_, _)
Stdout(code, n) ==
    IF n = 0 THEN <<>>
    ELSE Stdout(code, n - 1) \o (IF code[n].kind = "print" THEN <<"1">> ELSE <<>>)

NoError == [name |-> "", value |-> "", traceback |-> ""]
RemoteError(name, line) == [name |-> name, value |-> "raised", traceback |-> ToString(line)]

\* One run of the code in the sandbox, its artifacts left aside: how it ends
\* (ok, error, or signal: a stub was called), its stdout, and the error or
\* the stub's report. stubs are the names the session installed a stub under,
\* ns the remote variables loaded from the bundle (a name bound there no
\* longer names a stub). stub names the stub that was called.
SandboxRun(code, stubs, ns) ==
    LET n == StopAt(code, 1)
        base == [status |-> "ok", stdout |-> <<>>, error |-> NoError,
                 report |-> NoReport, stub |-> ""]
    IN  IF ~Compiles(code)
          THEN [base EXCEPT !.status = "error", !.error = RemoteError("SyntaxError", 0)]
        ELSE IF n = 0
          THEN [base EXCEPT !.stdout = Stdout(code, Len(code))]
        ELSE IF code[n].kind = "raise"
          THEN [base EXCEPT !.status = "error", !.stdout = Stdout(code, n - 1),
                            !.error = RemoteError("ZeroDivisionError", n)]
        ELSE IF code[n].agent \notin stubs
          THEN [base EXCEPT !.status = "error", !.stdout = Stdout(code, n - 1),
                            !.error = RemoteError("NameError", n)]
        ELSE IF code[n].agent \in DOMAIN ns
          THEN [base EXCEPT !.status = "error", !.stdout = Stdout(code, n - 1),
                            !.error = RemoteError("TypeError", n)]
        ELSE [base EXCEPT !.status = "signal", !.stdout = Stdout(code, n - 1),
                          !.report = Stub(code[n].agent, code[n].args, n),
                          !.stub = code[n].agent]

\* --------------------------------------------------------- the controller
\* final_answer_pattern.search(code): the texts of the model that hold
\* "final_answer(...)" are the final line and an assignment made to its text.
PatternFound(code) ==
    \E i \in 1..Len(code) : code[i].target = FinalLine.target

\* lines[n - 1].split("=")[0].strip()
Lhs(line) == line.target

\* repr(result)
Repr(v) == [literal |-> v]

AssignLine(t, v) == [kind |-> "assign", target |-> t, agent |-> "", args |-> "", value |-> Repr(v)]

\* The code resubmitted after a hand-off at line n.
Rewrite(code, n, result) ==
    <<AssignLine(Lhs(code[n]), result)>> \o SubSeq(code, n, Len(code))

\* 0 < handoff.line_number <= len(lines), the line number given
ValidLine(code, handoff) ==
    handoff.has_line /\ 0 < handoff.line_number /\ handoff.line_number <= Len(code)

\* The local capability registered under a name, applied to arguments.
AgentResult(name, args) == [by |-> name, on |-> args]

\* Line 177 as a bundle made anew, of the result alone.
MergeForgetsOthers(bundle, name, result) == [k \in {name} |-> result]

\* Line 177 left out: the bundle is staged as it was.
MergeDropsResult(bundle, name, result) == bundle

\* additional_args[name] = result
Merge(bundle, name, result) ==
    [k \in DOMAIN bundle \cup {name} |-> IF k = name THEN result ELSE bundle[k]]

\* locals().update(pickle_dict) of the unloading code
Load(ns, bundle) ==
    [k \in DOMAIN ns \cup DOMAIN bundle |-> IF k \in DOMAIN bundle THEN bundle[k] ELSE ns[k]]

\* ------------------------------------------------------ result extraction
ImageAttrs == <<"jpeg", "png">>
\* The list of lines 225-236 with html and json exchanged.
OtherAttrsSwapped == <<"chart", "data", "json", "javascript", "html", "latex", "markdown", "pdf", "svg", "text">>
OtherAttrs == <<"chart", "data", "html", "javascript", "json", "latex", "markdown", "pdf", "svg", "text">>
Attrs == {ImageAttrs[i] : i \in 1..Len(ImageAttrs)} \cup {OtherAttrs[i] : i \in 1..Len(OtherAttrs)}

\* Values: None, the attribute a of the i-th artifact as the sandbox sent
\* it, and the image decoded from it.
None == [tag |-> "None", attr |-> "", idx |-> 0]
Raw(a, i) == [tag |-> "raw", attr |-> a, idx |-> i]
Image(raw) == [tag |-> "Image", attr |-> raw.attr, idx |-> raw.idx]

\* getattr(result, a), result the i-th artifact
GetAttr(results, i, a) == IF a \in results[i].present THEN Raw(a, i) ELSE None

NoErr == [type |-> "", text |-> "", stdout |-> <<>>, error |-> NoError]
\* The error of line 141 without the logs and the remote error.
ValueErrorBare(text, stdout, error) ==
    [type |-> "ValueError", text |-> text, stdout |-> <<>>, error |-> NoError]
ValueError(text, stdout, error) ==
    [type |-> "ValueError", text |-> text, stdout |-> stdout, error |-> error]
KeyError(name) == [type |-> "KeyError", text |-> name, stdout |-> <<>>, error |-> NoError]

NoOutcome == [kind |-> "none", result |-> None, logs |-> <<>>, final |-> FALSE, error |-> NoErr]
ReturnOf(v, logs, fa) == [NoOutcome EXCEPT !.kind = "return", !.result = v, !.logs = logs, !.final = fa]
RaiseOf(err) == [NoOutcome EXCEPT !.kind = "raise", !.error = err]

\* The first attribute of the list, from the k-th on, the i-th artifact has
\* (0: none).
RECURSIVE FirstAttr(_, _, _, _)
FirstAttr(results, i, attrs, k) ==
    IF k > Len(attrs) THEN 0
    ELSE IF GetAttr(results, i, attrs[k]) # None THEN k
    ELSE FirstAttr(results, i, attrs, k + 1)

\* The loop of line 212 without the test of line 213.
RECURSIVE ScanAnyResults(_, _, _, _)
ScanAnyResults(results, i, logs, fa) ==
    IF i > Len(results)
      THEN IF fa THEN RaiseOf(ValueError("No main result returned by executor!", <<>>, NoError))
           ELSE ReturnOf(None, logs, FALSE)
    ELSE IF FirstAttr(results, i, ImageAttrs, 1) # 0
      THEN ReturnOf(Image(GetAttr(results, i, ImageAttrs[FirstAttr(results, i, ImageAttrs, 1)])),
                    logs, fa)
    ELSE IF FirstAttr(results, i, OtherAttrs, 1) # 0
      THEN ReturnOf(GetAttr(results, i, OtherAttrs[FirstAttr(results, i, OtherAttrs, 1)]), logs, fa)
    ELSE ScanAnyResults(results, i + 1, logs, fa)

\* for result in execution.results: ..., from the i-th artifact on, and the
\* statements after the loop
RECURSIVE ScanResults(_, _, _, _)
ScanResults(results, i, logs, fa) ==
    IF i > Len(results)
      THEN IF fa THEN RaiseOf(ValueError("No main result returned by executor!", <<>>, NoError))
           ELSE ReturnOf(None, logs, FALSE)
    ELSE IF results[i].is_main /\ FirstAttr(results, i, ImageAttrs, 1) # 0
      THEN ReturnOf(Image(GetAttr(results, i, ImageAttrs[FirstAttr(results, i, ImageAttrs, 1)])),
                  logs, fa)
    ELSE IF results[i].is_main /\ FirstAttr(results, i, OtherAttrs, 1) # 0
      THEN ReturnOf(GetAttr(results, i, OtherAttrs[FirstAttr(results, i, OtherAttrs, 1)]), logs, fa)
    ELSE ScanResults(results, i + 1, logs, fa)

\* The early return of line 210 turned into the failure of line 244.
ExtractEmptyFails(results, logs, fa) ==
    IF results = <<>>
      THEN RaiseOf(ValueError("No main result returned by executor!", <<>>, NoError))
    ELSE ScanResults(results, 1, logs, fa)

\* The return of line 210 with the flag of line 245.
ExtractDropsFlag(results, logs, fa) ==
    IF results = <<>> THEN ReturnOf(None, logs, FALSE)
    ELSE ScanResults(results, 1, logs, fa)

\* Lines 208-245 of __call__: what the call returns or raises after a run
\* that ended normally.
Extract(results, logs, fa) ==
    IF results = <<>> THEN ReturnOf(None, logs, fa)
    ELSE ScanResults(results, 1, logs, fa)

\* ------------------------------------------------------------------ state
VARIABLES
    managed_agents,   \* self.managed_agents: the names registered at session start
    final_answer,     \* self.final_answer
    sbx_propagates,   \* whether sbx.run_code lets a stub's exception propagate to its caller
    state_pkl,        \* the bundle staged at /home/state.pkl
    remote_ns,        \* the remote variables loaded from a bundle
    pc,               \* Idle, Submitted, Executed, Intercepted, Completed, Failed
    code_action,      \* __call__'s code_action
    additional_args,  \* __call__'s additional_args
    execution,        \* the execution the last run returned, with its artifacts
    handoff,          \* the AgentCallInterruption being handled
    outcome,          \* what the external call returned or raised
    orig_code,        \* the code_action the caller passed
    orig_args,        \* the additional_args the caller passed
    submitted,        \* the codes run_code_raise_errors(code_action) was given, this call
    invoked,          \* the local capabilities invoked, this call
    reports,          \* the stubs called this call: the stub, its line, the report delivered
    events,           \* what the call did, in order
    remote_busy,      \* the calls of sbx.run_code that have not returned
    local_busy        \* the calls of a managed agent that have not returned

vars == <<managed_agents, final_answer, sbx_propagates, state_pkl, remote_ns, pc,
          code_action, additional_args, execution, handoff, outcome, orig_code, orig_args,
          submitted, invoked, reports, events, remote_busy, local_busy>>

session == <<managed_agents, sbx_propagates>>
busy == <<remote_busy, local_busy>>

NoExecution == [status |-> "", stdout |-> <<>>, error |-> NoError, report |-> NoReport,
                stub |-> "", results |-> <<>>]

\* The artifacts a run may leave: whether it is the main result, and the
\* attributes it has.
Art(m, P) == [is_main |-> m, present |-> P]
\* The artifact lists of the session specification: none, a main result with
\* or without a value, and results that are not the main one.
SessionResults ==
    {<<>>, <<Art(TRUE, {"text"})>>, <<Art(TRUE, {})>>, <<Art(FALSE, {"text"})>>,
     <<Art(FALSE, {"png"}), Art(TRUE, {"png", "text"})>>}

\* The report as it reaches the controller: the stub's, whose line is that of
\* the calling frame, or one whose line number is missing or another (the
\* frame of a call made inside a function, a report altered on the way).
Delivered(report, code) ==
    {report, [report EXCEPT !.has_line = FALSE, !.line_number = 0]}
    \cup {[report EXCEPT !.line_number = n] : n \in -1..(Len(code) + 1)}

Init ==
    /\ managed_agents \in SUBSET AgentNames
    /\ final_answer = FALSE
    /\ sbx_propagates \in BOOLEAN
    /\ state_pkl = EmptyBundle
    /\ remote_ns = EmptyBundle
    /\ pc = "Idle"
    /\ code_action = <<>>
    /\ additional_args = EmptyBundle
    /\ execution = NoExecution
    /\ handoff = NoReport
    /\ outcome = NoOutcome
    /\ orig_code = <<>>
    /\ orig_args = EmptyBundle
    /\ submitted = <<>>
    /\ invoked = <<>>
    /\ reports = <<>>
    /\ events = <<>>
    /\ remote_busy = 0
    /\ local_busy = 0

\* The guard of line 145 dropped: every bundle is staged and loaded.
NeedsPushAlways(bundle) == TRUE

\* len(additional_args) > 0
NeedsPush(bundle) == Cardinality(DOMAIN bundle) > 0

\* The frame of a call of __call__ with its arguments.
Frame(code, bundle) ==
    /\ code_action' = code
    /\ additional_args' = bundle
    /\ orig_code' = code
    /\ orig_args' = bundle
    /\ execution' = NoExecution
    /\ handoff' = NoReport
    /\ submitted' = <<>>
    /\ invoked' = <<>>
    /\ reports' = <<>>

\* run_code_raise_errors(remote_unloading_code), lines 161 and 133-142: the
\* run loads the staged bundle, or it fails.
Loaded(bundle, ok) ==
    IF ok
      THEN /\ remote_ns' = Load(remote_ns, bundle)
           /\ pc' = "Submitted"
           /\ outcome' = NoOutcome
      ELSE /\ remote_ns' = remote_ns
           /\ pc' = "Failed"
           /\ outcome' = RaiseOf(ValueError("Executing code yielded an error:",
                                          <<"File path">>,
                                          RemoteError("UnpicklingError", 5)))

\* __call__, lines 144-163: the bundle is staged and loaded.
CallWith(code, bundle) ==
    /\ Frame(code, bundle)
    /\ IF NeedsPush(bundle)
         THEN /\ state_pkl' = bundle
              /\ events' = <<"write", "load">>
              /\ \E ok \in BOOLEAN : Loaded(bundle, ok)
         ELSE /\ pc' = "Submitted"
              /\ outcome' = NoOutcome
              /\ events' = <<>>
              /\ UNCHANGED <<state_pkl, remote_ns>>
    /\ UNCHANGED <<session, final_answer, busy>>

\* An external call of the executor, with the code and the bundle the caller
\* chooses.
Call ==
    /\ pc = "Idle"
    /\ \E code \in CodeActions, bundle \in Bundles : CallWith(code, bundle)

\* Lines 133-142 and 166-169: what the run of the code hands to __call__:
\* the execution, the error of line 141, or the stub's report.
RunOutcome(ex) ==
    LET got == [status |-> ex.status, stdout |-> ex.stdout, error |-> ex.error,
                report |-> ex.report, stub |-> ex.stub, results |-> <<>>]
    IN  \/ /\ ex.status = "ok"
           /\ \E rs \in SessionResults : execution' = [got EXCEPT !.results = rs]
           /\ pc' = "Executed"
           /\ UNCHANGED <<handoff, outcome, reports>>
        \/ /\ ex.status = "error"
           /\ execution' = got
           /\ pc' = "Failed"
           /\ outcome' = RaiseOf(ValueError("Executing code yielded an error:", ex.stdout, ex.error))
           /\ UNCHANGED <<handoff, reports>>
        \/ /\ ex.status = "signal"
           /\ sbx_propagates
           /\ execution' = got
           /\ \E h \in Delivered(ex.report, code_action) :
                /\ handoff' = h
                /\ reports' = Append(reports, [stub |-> ex.stub, line |-> ex.report.line_number,
                                               given |-> h])
           /\ pc' = "Intercepted"
           /\ UNCHANGED outcome
        \/ /\ ex.status = "signal"
           /\ ~sbx_propagates
           /\ execution' = got
           /\ pc' = "Failed"
           /\ outcome' = RaiseOf(ValueError("Executing code yielded an error:", ex.stdout,
                                          RemoteError("AgentCallInterruption", ex.report.line_number)))
           /\ UNCHANGED <<handoff, reports>>

\* run_code_raise_errors(code_action), lines 166-168 and 130-142.
Run ==
    /\ pc = "Submitted"
    /\ Len(submitted) < MaxRuns
    /\ submitted' = Append(submitted, code_action)
    /\ events' = Append(events, "run")
    /\ final_answer' = (final_answer \/ PatternFound(code_action))
    /\ RunOutcome(SandboxRun(code_action, managed_agents, remote_ns))
    /\ UNCHANGED <<session, state_pkl, remote_ns, code_action, additional_args,
                   orig_code, orig_args, invoked, busy>>

\* __call__, lines 208-245: the result of the run that ended normally.
Finish ==
    /\ pc = "Executed"
    /\ outcome' = Extract(execution.results, execution.stdout, final_answer)
    /\ pc' = IF outcome'.kind = "return" THEN "Completed" ELSE "Failed"
    /\ UNCHANGED <<session, final_answer, state_pkl, remote_ns, code_action,
                   additional_args, execution, handoff, orig_code, orig_args, submitted,
                   invoked, reports, events, busy>>

\* __call__, lines 177-206: the capability has returned result; it is merged
\* into the bundle, the bundle is staged and the code is rewritten.
Resumed(result) ==
    LET bundle == Merge(additional_args, handoff.agent_name, result)
    IN  /\ additional_args' = bundle
        /\ state_pkl' = bundle
        /\ IF ValidLine(code_action, handoff)
             THEN /\ code_action' = Rewrite(code_action, handoff.line_number, result)
                  /\ pc' = "Submitted"
                  /\ events' = events \o <<"invoke", "write", "rewrite">>
                  /\ UNCHANGED outcome
             ELSE /\ pc' = "Failed"
                  /\ outcome' = RaiseOf(ValueError("Invalid line number", <<>>, NoError))
                  /\ events' = events \o <<"invoke", "write">>
                  /\ UNCHANGED code_action

\* __call__, lines 169-206: the hand-off.
Resume ==
    /\ pc = "Intercepted"
    /\ IF handoff.agent_name \notin managed_agents
         THEN /\ pc' = "Failed"
              /\ outcome' = RaiseOf(KeyError(handoff.agent_name))
              /\ UNCHANGED <<invoked, additional_args, state_pkl, code_action, events>>
         ELSE /\ invoked' = Append(invoked, [agent |-> handoff.agent_name, args |-> handoff.args])
              /\ Resumed(AgentResult(handoff.agent_name, handoff.args))
    /\ UNCHANGED <<session, final_answer, remote_ns, execution, handoff, orig_code,
                   orig_args, submitted, reports, busy>>

\* The call has returned or raised: its frame is gone, the session stays.
Return ==
    /\ pc \in {"Completed", "Failed"}
    /\ pc' = "Idle"
    /\ code_action' = <<>>
    /\ additional_args' = EmptyBundle
    /\ execution' = NoExecution
    /\ handoff' = NoReport
    /\ outcome' = NoOutcome
    /\ orig_code' = <<>>
    /\ orig_args' = EmptyBundle
    /\ submitted' = <<>>
    /\ invoked' = <<>>
    /\ reports' = <<>>
    /\ events' = <<>>
    /\ UNCHANGED <<session, final_answer, state_pkl, remote_ns, busy>>

Next ==
    \/ Call
    \/ Run
    \/ Finish
    \/ Resume
    \/ Return

Spec == Init /\ [][Next]_vars

\* ------------------------------------------- the extraction specification
\* The attribute sets of an artifact that is the main result: at most two
\* attributes, or all of them; and of one that is not.
MainPresent == {P \in SUBSET Attrs : Cardinality(P) <= 2} \cup {Attrs}
OtherPresent == {{}, {"png"}, {"text"}, Attrs}
ExtractArtifacts ==
    {Art(TRUE, P) : P \in MainPresent} \cup {Art(FALSE, P) : P \in OtherPresent}
ExtractResults == UNION {[1..k -> ExtractArtifacts] : k \in 0..MaxArtifacts}

\* A run of a one-line code has just ended normally, with any artifacts, in a
\* session whose earlier calls may have set final_answer.
InitExtract ==
    /\ managed_agents = AgentNames
    /\ final_answer \in BOOLEAN
    /\ sbx_propagates = TRUE
    /\ state_pkl = EmptyBundle
    /\ remote_ns = EmptyBundle
    /\ pc = "Executed"
    /\ code_action = <<PrintLine>>
    /\ additional_args = EmptyBundle
    /\ \E rs \in ExtractResults :
         execution = [status |-> "ok", stdout |-> <<"1">>, error |-> NoError,
                      report |-> NoReport, stub |-> "", results |-> rs]
    /\ handoff = NoReport
    /\ outcome = NoOutcome
    /\ orig_code = <<PrintLine>>
    /\ orig_args = EmptyBundle
    /\ submitted = <<<<PrintLine>>>>
    /\ invoked = <<>>
    /\ reports = <<>>
    /\ events = <<"run">>
    /\ remote_busy = 0
    /\ local_busy = 0

NextExtract == Finish

SpecExtract == InitExtract /\ [][NextExtract]_vars

\* ------------------------------------------------ the calls, step by step
\* The same call with each blocking call of __call__ taken apart into the
\* moment it is made and the moment it returns: sbx.run_code (line 133, for
\* the unloading code and for the code) and the managed agent (line 174).
\* pc is then also Loading, Running or Invoking.

\* The loop accepts a submission while a capability has not yet returned.
MaySubmitEarly == pc \in {"Submitted", "Invoking"}

\* The loop is at line 167.
MaySubmit == pc = "Submitted"

\* __call__ is entered, lines 144-161: a bundle is staged and the unloading
\* code is handed to sbx.run_code.
CallStep ==
    /\ pc = "Idle"
    /\ \E code \in CodeActions, bundle \in Bundles :
         /\ Frame(code, bundle)
         /\ IF NeedsPush(bundle)
              THEN /\ state_pkl' = bundle
                   /\ events' = <<"write", "load">>
                   /\ pc' = "Loading"
                   /\ remote_busy' = remote_busy + 1
              ELSE /\ pc' = "Submitted"
                   /\ events' = <<>>
                   /\ UNCHANGED <<state_pkl, remote_busy>>
    /\ outcome' = NoOutcome
    /\ UNCHANGED <<session, final_answer, remote_ns, local_busy>>

\* sbx.run_code(remote_unloading_code) returns.
LoadedStep ==
    /\ pc = "Loading"
    /\ remote_busy' = remote_busy - 1
    /\ \E ok \in BOOLEAN : Loaded(additional_args, ok)
    /\ UNCHANGED <<session, final_answer, state_pkl, code_action, additional_args, execution,
                   handoff, orig_code, orig_args, submitted, invoked, reports, events,
                   local_busy>>

\* run_code_raise_errors(code_action), lines 131-133: the code is handed to
\* sbx.run_code.
SubmitStep ==
    /\ MaySubmit
    /\ Len(submitted) < MaxRuns
    /\ submitted' = Append(submitted, code_action)
    /\ events' = Append(events, "run")
    /\ final_answer' = (final_answer \/ PatternFound(code_action))
    /\ pc' = "Running"
    /\ remote_busy' = remote_busy + 1
    /\ UNCHANGED <<session, state_pkl, remote_ns, code_action, additional_args, execution,
                   handoff, outcome, orig_code, orig_args, invoked, reports, local_busy>>

\* sbx.run_code(code_action) returns or raises, lines 133-142 and 168-169.
ReceiveStep ==
    /\ pc = "Running"
    /\ remote_busy' = remote_busy - 1
    /\ RunOutcome(SandboxRun(code_action, managed_agents, remote_ns))
    /\ UNCHANGED <<session, final_answer, state_pkl, remote_ns, code_action,
                   additional_args, orig_code, orig_args, submitted, invoked, events,
                   local_busy>>

\* Line 174: the capability is looked up and called.
InvokeStep ==
    /\ pc = "Intercepted"
    /\ IF handoff.agent_name \notin managed_agents
         THEN /\ pc' = "Failed"
              /\ outcome' = RaiseOf(KeyError(handoff.agent_name))
              /\ UNCHANGED <<invoked, local_busy>>
         ELSE /\ invoked' = Append(invoked, [agent |-> handoff.agent_name, args |-> handoff.args])
              /\ pc' = "Invoking"
              /\ local_busy' = local_busy + 1
              /\ UNCHANGED outcome
    /\ UNCHANGED <<session, final_answer, state_pkl, remote_ns, code_action,
                   additional_args, execution, handoff, orig_code, orig_args, submitted,
                   reports, events, remote_busy>>

\* Lines 174-206: the capability returns.
InvokeReturnStep ==
    /\ pc = "Invoking"
    /\ local_busy' = local_busy - 1
    /\ Resumed(AgentResult(handoff.agent_name, handoff.args))
    /\ UNCHANGED <<session, final_answer, remote_ns, execution, handoff, orig_code,
                   orig_args, submitted, invoked, reports, remote_busy>>

NextSteps ==
    \/ CallStep
    \/ LoadedStep
    \/ SubmitStep
    \/ ReceiveStep
    \/ InvokeStep
    \/ InvokeReturnStep
    \/ Finish
    \/ Return

SpecSteps == Init /\ [][NextSteps]_vars

\* ------------------------------------------- the calls that are resumed
\* One call of a session whose sandbox hands the stubs' reports over, with
\* an empty bundle and a code that prints, finishes, or calls the capability
\* while the target is unbound: __call__ has been entered and is at line 165.
LogLines == {PrintLine, FinalLine, GuardedCall("x", "sub_agent", "q1"),
             GuardedCall("y", "sub_agent", "q2")}
LogCodes == UNION {[1..n -> LogLines] : n \in 1..MaxLines}

InitLogs ==
    /\ managed_agents = {"sub_agent"}
    /\ final_answer = FALSE
    /\ sbx_propagates = TRUE
    /\ state_pkl = EmptyBundle
    /\ remote_ns = EmptyBundle
    /\ pc = "Submitted"
    /\ code_action \in LogCodes
    /\ orig_code = code_action
    /\ additional_args = EmptyBundle
    /\ orig_args = EmptyBundle
    /\ execution = NoExecution
    /\ handoff = NoReport
    /\ outcome = NoOutcome
    /\ submitted = <<>>
    /\ invoked = <<>>
    /\ reports = <<>>
    /\ events = <<>>
    /\ remote_busy = 0
    /\ local_busy = 0

NextLogs ==
    \/ Run
    \/ Finish
    \/ Resume
    \/ Return

SpecLogs == InitLogs /\ [][NextLogs]_vars

\* ----------------------------------------------------------------- claims
Terminal == pc \in {"Completed", "Failed"}

\* The lines of a code that call a capability the session registered.
CallSites(code) ==
    {i \in 1..Len(code) : code[i].kind = "call" /\ code[i].agent \in managed_agents}

\* Every report delivered in this call names the line its stub was called on.
ExactReports ==
    \A i \in 1..Len(reports) :
        reports[i].given.has_line /\ reports[i].given.line_number = reports[i].line

\* The remote runs of this call that loaded the bundle.
Loads == Cardinality({i \in 1..Len(events) : events[i] = "load"})

NoMain(results) == \A i \in 1..Len(results) : ~results[i].is_main

\* C1: after a hand-off reported at a valid line L that holds `x = capability(...)`,
\* the code resubmitted is `x = <repr of the result>` followed by the original
\* lines L+1 onward; line L and the lines before it are gone.
C1_Resubmitted ==
    [][(pc = "Intercepted" /\ pc' = "Submitted"
        /\ code_action[handoff.line_number].kind = "call")
       => code_action' =
            <<AssignLine(code_action[handoff.line_number].target,
                         AgentResult(handoff.agent_name, handoff.args))>>
            \o SubSeq(code_action, handoff.line_number + 1, Len(code_action))]_vars

\* The case of C2: the code holds exactly one call of a registered capability,
\* whose stub is in place, and nothing that raises; the bundle was loaded and
\* every report names the calling line.
C2_Case ==
    /\ pc # "Idle"
    /\ Cardinality(CallSites(orig_code)) = 1
    /\ \A i \in 1..Len(orig_code) :
         /\ orig_code[i].kind # "raise"
         /\ orig_code[i].kind = "call" =>
              i \in CallSites(orig_code) /\ orig_code[i].agent \notin DOMAIN remote_ns
    /\ ExactReports

\* C2: a code with exactly one capability call is intercepted once, the
\* capability is invoked once, the code is submitted twice and the loop ends
\* with a run that completes; the call site is not intercepted again.
C2_OneHandOff ==
    C2_Case =>
        /\ Len(reports) <= 1
        /\ Len(invoked) <= 1
        /\ Len(submitted) <= 2
        /\ (Terminal /\ submitted # <<>>) =>
               /\ execution.status = "ok"
               /\ Len(reports) = 1
               /\ Len(invoked) = 1
               /\ Len(submitted) = 2

\* C3, as stated: a code with no delegable-capability call makes exactly one
\* remote submission, whatever the bundle, and is not rewritten.
C3_OneSubmission ==
    (Terminal /\ CallSites(orig_code) = {}) =>
        /\ Len(submitted) + Loads = 1
        /\ code_action = orig_code

\* C3, amended: a code with no delegable-capability call is never rewritten,
\* no capability is invoked, and it is submitted once, unless the run that
\* loads the bundle failed, and then not at all; that run is made once when
\* the bundle is non-empty and not made when it is empty.
C3_OneCodeSubmission ==
    (pc # "Idle" /\ CallSites(orig_code) = {}) =>
        /\ code_action = orig_code
        /\ invoked = <<>>
        /\ Len(submitted) <= 1
        /\ Loads = (IF DOMAIN orig_args # {} THEN 1 ELSE 0)
        /\ Terminal =>
             \/ Len(submitted) = 1
             \/ /\ submitted = <<>>
                /\ Loads = 1
                /\ outcome.kind = "raise"
                /\ outcome.error.error.name = "UnpicklingError"

C3_Witness ==
    /\ pc = "Completed"
    /\ CallSites(orig_code) = {}
    /\ DOMAIN orig_args # {}
    /\ Len(submitted) = 1
    /\ Loads = 1

\* C4: a run that reaches a stub does not end the call with the error of a
\* failed remote run: the controller gets the report; and a run that raised
\* an ordinary error ends the call.
C4_SignalDistinct ==
    /\ execution.status = "signal" =>
         ~(pc = "Failed" /\ outcome.error.text = "Executing code yielded an error:")
    /\ execution.status = "error" => pc = "Failed"

\* C5: the report of the stub installed under a name carries that name and
\* the arguments of the call, and the capability invoked is the one
\* registered under that name, with those arguments.
C5_NamedCapability ==
    \A i \in 1..Len(reports) :
        /\ reports[i].given.agent_name = reports[i].stub
        /\ i <= Len(invoked) =>
             invoked[i] = [agent |-> reports[i].stub, args |-> reports[i].given.args]

\* C6: a report whose line number is missing, 0, negative or beyond the last
\* line ends the call with the invalid-line error, and nothing more is
\* submitted.
C6_InvalidLineFails ==
    [][(pc = "Intercepted" /\ ~ValidLine(code_action, handoff))
       => /\ pc' = "Failed"
          /\ outcome'.kind = "raise"
          /\ outcome'.error.text = "Invalid line number"
          /\ submitted' = submitted]_vars

\* C7: in final-answer mode a run that ended normally with no artifact
\* flagged main, none at all included, ends the call with the missing-result
\* error.
C7_FinalNeedsResult ==
    (Terminal /\ execution.status = "ok" /\ final_answer /\ NoMain(execution.results)) =>
        /\ outcome.kind = "raise"
        /\ outcome.error.text = "No main result returned by executor!"

\* C8: outside final-answer mode a run that ended normally with no artifact
\* returns None with the logs of the run and a false flag, and raises nothing.
C8_NoResult ==
    (Terminal /\ execution.status = "ok" /\ ~final_answer /\ execution.results = <<>>) =>
        /\ pc = "Completed"
        /\ outcome = ReturnOf(None, execution.stdout, FALSE)

C8_Witness ==
    /\ pc = "Completed"
    /\ execution.status = "ok"
    /\ ~final_answer
    /\ execution.results = <<>>
    /\ execution.stdout # <<>>
    /\ outcome.result = None

\* The priority order C9 states.
C9_Order ==
    <<"jpeg", "png", "chart", "data", "html", "javascript", "json", "latex", "markdown",
      "pdf", "svg", "text">>
C9_Rank(a) == CHOOSE k \in 1..Len(C9_Order) : C9_Order[k] = a
C9_Best(P) == CHOOSE a \in P : \A b \in P : C9_Rank(a) <= C9_Rank(b)
\* The first artifact flagged main that has an attribute (0: none).
C9_Main(results) ==
    LET S == {i \in 1..Len(results) : results[i].is_main /\ results[i].present # {}}
    IN  IF S = {} THEN 0 ELSE CHOOSE i \in S : \A j \in S : i <= j

\* C9: the value returned is the first attribute the main artifact has in the
\* order jpeg, png, chart, data, html, javascript, json, latex, markdown, pdf,
\* svg, text: the decoded image when it has one, whatever else it has.
C9_Priority ==
    (Terminal /\ execution.status = "ok" /\ C9_Main(execution.results) # 0) =>
        LET i == C9_Main(execution.results)
            a == C9_Best(execution.results[i].present)
        IN  /\ outcome.kind = "return"
            /\ outcome.result = [tag |-> IF a \in {"jpeg", "png"} THEN "Image" ELSE "raw",
                                 attr |-> a, idx |-> i]

C9_Witness ==
    /\ pc = "Completed"
    /\ Len(execution.results) = 2
    /\ ~execution.results[1].is_main
    /\ execution.results[2] = Art(TRUE, {"png", "text"})
    /\ outcome.result = [tag |-> "Image", attr |-> "png", idx |-> 2]

\* C10: a value returned comes from an artifact flagged main; when no
\* artifact is flagged main the call returns None or raises the
\* missing-result error, whatever the other artifacts hold.
C10_OnlyMain ==
    (Terminal /\ execution.status = "ok") =>
        /\ (outcome.kind = "return" /\ outcome.result # None) =>
               execution.results[outcome.result.idx].is_main
        /\ NoMain(execution.results) =>
               \/ outcome.kind = "return" /\ outcome.result = None
               \/ /\ outcome.kind = "raise"
                  /\ outcome.error.text = "No main result returned by executor!"

C10_Witness ==
    /\ pc = "Completed"
    /\ Len(execution.results) = 2
    /\ NoMain(execution.results)
    /\ execution.results[1].present = Attrs
    /\ execution.results[2].present = {"text"}
    /\ outcome.result = None

\* C11: final_answer is never unset; it is set once a code given to
\* run_code_raise_errors holds the final_answer(...) pattern, and stays set
\* over the hand-offs and the later calls of the session; the flag a call
\* returns is the session's flag at that moment.
C11_Monotonic ==
    [][/\ final_answer => final_answer'
       /\ (\E i \in 1..Len(submitted') : PatternFound(submitted'[i])) => final_answer'
       /\ outcome'.kind = "return" => outcome'.final = final_answer']_vars

\* A later call, whose code does not hold the pattern, returns the flag an
\* earlier call set.
C11_Witness ==
    /\ pc = "Completed"
    /\ submitted # <<>>
    /\ \A i \in 1..Len(submitted) : ~PatternFound(submitted[i])
    /\ final_answer
    /\ outcome.final

\* The events of this call that staged the bundle.
Pushes == Cardinality({i \in 1..Len(events) : events[i] = "write"})

\* C12: once the bundle has been pushed, at the start of the call or after a
\* hand-off, and the code is about to run, every key of the bundle is a
\* remote variable that holds the value last pushed; the result merged under
\* the capability's name is among them.
C12_PushedIsLoaded ==
    (pc = "Submitted" /\ Pushes > 0) =>
        \A k \in DOMAIN additional_args :
            k \in DOMAIN remote_ns /\ remote_ns[k] = additional_args[k]

\* C13: a run of the code that raised an ordinary remote error ends the call
\* in Failed with an error made of the run's stdout and the remote error's
\* name, value and traceback; the failing run invokes no capability and
\* rewrites nothing, and the only step after it is the call's return: nothing
\* is submitted again.
C13_ErrorEndsCall ==
    [][/\ execution'.status = "error" =>
            /\ pc' = "Failed"
            /\ outcome'.kind = "raise"
            /\ outcome'.error.text = "Executing code yielded an error:"
            /\ outcome'.error.stdout = execution'.stdout
            /\ outcome'.error.error = execution'.error
            /\ execution'.error # NoError
       /\ (execution.status # "error" /\ execution'.status = "error") =>
            /\ invoked' = invoked
            /\ code_action' = code_action
            /\ submitted' = Append(submitted, code_action)
       /\ execution.status = "error" => pc' = "Idle"]_vars

C13_Witness ==
    /\ pc = "Failed"
    /\ execution.status = "error"
    /\ execution.error.name = "ZeroDivisionError"
    /\ execution.stdout # <<>>
    /\ outcome.error.stdout = execution.stdout
    /\ outcome.error.error.name = "ZeroDivisionError"

\* The three failures of C14, told by what the call did: a run of the code
\* raised remotely; a report the controller took up, whose capability it
\* found, had no valid line; a run ended normally and no result was found.
C14_RemoteError == pc = "Failed" /\ execution.status = "error"
C14_InvalidLine ==
    /\ pc = "Failed"
    /\ execution.status = "signal"
    /\ handoff # NoReport
    /\ handoff.agent_name \in managed_agents
    /\ ~ValidLine(code_action, handoff)
C14_MissingResult == pc = "Failed" /\ execution.status = "ok"

\* C14: the three failures have pairwise distinct types: the type of the
\* remote execution error, ValueError, is the type of neither of the other
\* two.
C14_DistinctTypes ==
    /\ C14_RemoteError => outcome.error.type = "ValueError"
    /\ (C14_InvalidLine \/ C14_MissingResult) => outcome.error.type # "ValueError"

RECURSIVE C16_AllStdout(_)
C16_AllStdout(cs) ==
    IF cs = <<>> THEN <<>>
    ELSE SandboxRun(Head(cs), managed_agents, remote_ns).stdout \o C16_AllStdout(Tail(cs))

\* C16: a call that completes after a hand-off returns the stdout lines of
\* all the runs of the call, the intercepted ones and the last.
C16_LogsAccumulated ==
    (pc = "Completed" /\ invoked # <<>>) => outcome.logs = C16_AllStdout(submitted)

\* C17: the step from an interception to the resubmission invokes the
\* capability once, then sets its result in the bundle and stages the whole
\* bundle, then rewrites the code, in this order; a code is submitted again
\* only by such a step, so the bundle staged last holds the latest result;
\* the step can be taken again after the next interception.
C17_HandOffOrder ==
    [][/\ (pc = "Intercepted" /\ pc' = "Submitted") =>
            LET name == handoff.agent_name
                result == AgentResult(name, handoff.args)
            IN  /\ invoked' = Append(invoked, [agent |-> name, args |-> handoff.args])
                /\ events' = events \o <<"invoke", "write", "rewrite">>
                /\ additional_args' = [k \in DOMAIN additional_args \cup {name} |->
                                          IF k = name THEN result ELSE additional_args[k]]
                /\ state_pkl' = additional_args'
                /\ code_action' = Rewrite(code_action, handoff.line_number, result)
                /\ submitted' = submitted
       /\ (pc' = "Submitted" /\ submitted' # <<>>) => pc = "Intercepted"]_vars

\* The second hand-off of a call has been made and the code is about to be
\* submitted a third time.
C17_Witness ==
    /\ pc = "Submitted"
    /\ Len(submitted) = 2
    /\ Len(invoked) = 2
    /\ events = <<"run", "invoke", "write", "rewrite", "run", "invoke", "write", "rewrite">>
    /\ state_pkl = additional_args
    /\ "sub_agent" \in DOMAIN state_pkl
    /\ state_pkl["sub_agent"] = AgentResult(invoked[2].agent, invoked[2].args)

\* The hand-offs of this call, among those whose capability was invoked,
\* whose report names k.
C18_HandOffs(k) == {i \in 1..Len(invoked) : reports[i].given.agent_name = k}
C18_Last(S) == CHOOSE i \in S : \A j \in S : j <= i

\* C18: during a call the caller's bundle differs from the one passed only
\* at the keys the reports of the call name, each holding the result of the
\* capability for the last such report; the other keys keep their values,
\* and with no interception the bundle is the one passed.
C18_BundleFrame ==
    pc # "Idle" =>
        /\ DOMAIN orig_args \subseteq DOMAIN additional_args
        /\ \A k \in DOMAIN additional_args :
             IF C18_HandOffs(k) = {}
               THEN k \in DOMAIN orig_args /\ additional_args[k] = orig_args[k]
               ELSE additional_args[k] =
                      AgentResult(k, reports[C18_Last(C18_HandOffs(k))].given.args)
        /\ reports = <<>> => additional_args = orig_args

\* A call with a bundle of one key has made a hand-off: the bundle has the
\* caller's key as it was and the capability's result.
C18_Witness ==
    /\ pc = "Submitted"
    /\ Len(invoked) = 1
    /\ DOMAIN orig_args = {"k"}
    /\ DOMAIN additional_args = {"k", "sub_agent"}
    /\ additional_args["k"] = CallerValue
    /\ additional_args["sub_agent"] = AgentResult("sub_agent", reports[1].given.args)

\* C19: when the report taken up has no valid line, the call ends in Failed
\* with nothing submitted after the report and the code as it was, and by
\* then the capability has been invoked once for this report, its result has
\* been set in the bundle and the bundle has been staged.
C19_ValidatedLast ==
    [][(pc = "Intercepted" /\ ~ValidLine(code_action, handoff)) =>
          /\ pc' = "Failed"
          /\ submitted' = submitted
          /\ code_action' = code_action
          /\ invoked' = Append(invoked, [agent |-> handoff.agent_name, args |-> handoff.args])
          /\ handoff.agent_name \in DOMAIN additional_args'
          /\ additional_args'[handoff.agent_name] = AgentResult(handoff.agent_name, handoff.args)
          /\ state_pkl' = additional_args']_vars

====
